---- MODULE Spec2Model ----
(***************************************************************************)
(* A model of the JSON formatter: the two variants of the page component   *)
(* (src/src/app/page.tsx, JSONFormatter; src/unnamed/part_000,             *)
(* JsonFormatter), their error locators and their syntax highlighters.     *)
(*                                                                         *)
(* A JavaScript string is a sequence of UTF-16 code units; each code unit  *)
(* is a one-element TLA+ string.  HS and LS stand for the two halves of a  *)
(* surrogate pair (one astral character such as U+1F600).                  *)
(***************************************************************************)
EXTENDS Integers, Sequences, FiniteSets, TLC

VARIABLES
    \* --- error locator, called on its own -------------------------------
    locText,        \* the source text handed to the locator
    locMsg,         \* the parser's failure message
    locResult,      \* result of getErrorLocation (part_000)
    locLine,        \* result of getErrorLineNumber (page.tsx)
    locPc,          \* which of the two locators have run
    \* --- highlighter, called on its own ---------------------------------
    hlValue,        \* the JSON value that was serialized
    hlIndent,       \* the indent it was serialized with (0: minified)
    hlVariant,      \* "none", or the variant whose syntaxHighlight has run
    hlJson,         \* the serialized text handed to syntaxHighlight
    hlTokens,       \* the replace callback's calls: the class chosen, the match
    hlOut,          \* the markup syntaxHighlight returned
    \* --- the page component --------------------------------------------
    variant,        \* "page": JSONFormatter of page.tsx; "part": JsonFormatter of part_000
    input,          \* useState("")
    output,         \* useState("")
    error,          \* the message shown: page.tsx's error, part_000's error.message
    errorLine,      \* page.tsx's errorLine, part_000's error.line
    errorColumn,    \* part_000's error.column
    indentSize,     \* page.tsx's useState(2)
    highlightedOutput, \* part_000's useState("")
    cbInput,        \* the input the memoized callbacks have captured
    cbIndent,       \* the indentSize formatJSON has captured
    last,           \* the last event handled: what ran, and what the parser answered
    \* --- Copy: copyOutput (page.tsx), handleCopy (part_000) -------------
    copied,         \* useState(false)
    clipboardApi,   \* whether navigator.clipboard exists in this browser
    writes,         \* the calls suspended at `await writeText(output)`: id, text
    timers,         \* the pending setTimeout(() => setCopied(false), 2000), oldest first
    copies,         \* how many calls of Copy went past `if (!output) return`
    copiedBy        \* the call that last ran setCopied(true); 0: none

locVars == <<locText, locMsg, locResult, locLine, locPc>>
hlVars == <<hlValue, hlIndent, hlVariant, hlJson, hlTokens, hlOut>>
copyVars == <<copied, clipboardApi, writes, timers, copies, copiedBy>>
uiVars == <<variant, input, output, error, errorLine, errorColumn, indentSize,
            highlightedOutput, cbInput, cbIndent, last, copyVars>>
vars == <<locVars, hlVars, uiVars>>

-----------------------------------------------------------------------------
(* Bounds *)
MaxTextLen == 3
MaxPos == 5
MaxStrAtoms == 2
MaxBlankLen == 1
MaxCopies == 2

-----------------------------------------------------------------------------
(* Values shared by all parts *)

\* JavaScript null / a present value
NULL == [isNull |-> TRUE]
Some(x) == [val |-> x]
\* a specification's variables before their operation has run
Idle == [idle |-> TRUE]

HS == "\\uD83D"
LS == "\\uDE00"
NL == "\n"

Max(a, b) == IF a >= b THEN a ELSE b
Min(a, b) == IF a <= b THEN a ELSE b

RECURSIVE Flatten(_)
Flatten(ss) == IF ss = <<>> THEN <<>> ELSE Head(ss) \o Flatten(Tail(ss))

\* all sequences over S of length at most n
SeqsUpTo(S, n) == UNION {[1..k -> S] : k \in 0..n}

Substring(s, from, to) == SubSeq(s, from + 1, Min(to, Len(s)))

DigitChars == <<"0", "1", "2", "3", "4", "5", "6", "7", "8", "9">>
IsDigit(c) == \E d \in 1..10 : DigitChars[d] = c
DigitValue(c) == (CHOOSE d \in 1..10 : DigitChars[d] = c) - 1

\* String(n) for a non-negative integer
RECURSIVE Digits(_)
Digits(n) == IF n < 10 THEN <<DigitChars[n + 1]>>
             ELSE Digits(n \div 10) \o <<DigitChars[(n % 10) + 1]>>

\* parseInt(s, 10) of a string of decimal digits
RECURSIVE ParseIntAcc(_, _)
ParseIntAcc(s, acc) == IF s = <<>> THEN acc
                       ELSE ParseIntAcc(Tail(s), 10 * acc + DigitValue(Head(s)))
parseInt(s) == ParseIntAcc(s, 0)

\* \s of a regular expression, over the characters the model uses
IsSpace(c) == c \in {" ", NL, "\t", "\r"}

\* case folding of the /i flag, over the letters of the two keywords
ToLower(c) ==
    CASE c = "P" -> "p" [] c = "O" -> "o" [] c = "S" -> "s" [] c = "I" -> "i"
      [] c = "T" -> "t" [] c = "N" -> "n" [] c = "L" -> "l" [] c = "E" -> "e"
      [] OTHER -> c

kwPosition == <<"p", "o", "s", "i", "t", "i", "o", "n">>
kwLine == <<"l", "i", "n", "e">>

-----------------------------------------------------------------------------
(* message.match(/<kw>\s+(\d+)/i): the capture group of the leftmost match,  *)
(* or NULL                                                                   *)

\* the first index > i that is not whitespace / not a digit
RECURSIVE SkipSpaces(_, _)
SkipSpaces(s, i) == IF i <= Len(s) /\ IsSpace(s[i]) THEN SkipSpaces(s, i + 1) ELSE i
RECURSIVE SkipDigits(_, _)
SkipDigits(s, i) == IF i <= Len(s) /\ IsDigit(s[i]) THEN SkipDigits(s, i + 1) ELSE i

KeywordAt(s, i, kw) ==
    /\ i + Len(kw) - 1 <= Len(s)
    /\ \A k \in 1..Len(kw) : ToLower(s[i + k - 1]) = kw[k]

\* the pattern matched at index i: the captured digits, or <<>> for no match
KeywordNumberAt(s, i, kw) ==
    IF ~KeywordAt(s, i, kw) THEN <<>>
    ELSE LET a == i + Len(kw)
             b == SkipSpaces(s, a)
             c == SkipDigits(s, b)
         IN  IF b > a /\ c > b THEN SubSeq(s, b, c - 1) ELSE <<>>

RECURSIVE MatchFrom(_, _, _)
MatchFrom(s, i, kw) ==
    IF i > Len(s) THEN NULL
    ELSE IF KeywordNumberAt(s, i, kw) # <<>> THEN Some(KeywordNumberAt(s, i, kw))
    ELSE MatchFrom(s, i + 1, kw)

MatchKeywordNumber(message, kw) == MatchFrom(message, 1, kw)

-----------------------------------------------------------------------------
(* Error locator of part_000 *)

\* for (const char of jsonString): the string iterator yields code points,
\* a surrogate pair as one character
RECURSIVE StringIterator(_)
StringIterator(s) ==
    IF s = <<>> THEN <<>>
    ELSE IF Len(s) >= 2 /\ s[1] = HS /\ s[2] = LS
         THEN <<SubSeq(s, 1, 2)>> \o StringIterator(SubSeq(s, 3, Len(s)))
         ELSE <<SubSeq(s, 1, 1)>> \o StringIterator(Tail(s))

\* a walk over the indices 0..position-1 that does not stop at the text's end
RECURSIVE LocationWalkPastEnd(_, _, _, _, _, _)
LocationWalkPastEnd(chars, i, position, line, column, currentPos) ==
    IF currentPos >= position
    THEN [line |-> line, column |-> column]
    ELSE IF i <= Len(chars) /\ chars[i] = <<NL>>
         THEN LocationWalkPastEnd(chars, i + 1, position, line + 1, 1, currentPos + 1)
         ELSE LocationWalkPastEnd(chars, i + 1, position, line, column + 1, currentPos + 1)

RECURSIVE LocationWalk(_, _, _, _, _, _)
LocationWalk(chars, i, position, line, column, currentPos) ==
    IF i > Len(chars) \/ currentPos >= position
    THEN [line |-> line, column |-> column]
    ELSE IF chars[i] = <<NL>>
         THEN LocationWalk(chars, i + 1, position, line + 1, 1, currentPos + 1)
         ELSE LocationWalk(chars, i + 1, position, line, column + 1, currentPos + 1)

getErrorLocation(jsonString, message) ==
    LET match == MatchKeywordNumber(message, kwPosition)
    IN  IF match = NULL THEN NULL
        ELSE Some(LocationWalk(StringIterator(jsonString), 1, parseInt(match.val), 1, 1, 0))

-----------------------------------------------------------------------------
(* Error locator of page.tsx *)

\* s.split("\n").length
RECURSIVE CountNewlines(_)
CountNewlines(s) ==
    IF s = <<>> THEN 0
    ELSE (IF Head(s) = NL THEN 1 ELSE 0) + CountNewlines(Tail(s))
SplitLinesLength(s) == CountNewlines(s) + 1

\* a locator that falls back to line 1 when the message carries no location
getErrorLineNumberDefault(message, inputText) ==
    LET positionMatch == MatchKeywordNumber(message, kwPosition)
        lineMatch == MatchKeywordNumber(message, kwLine)
    IN  IF positionMatch # NULL
        THEN Some(SplitLinesLength(Substring(inputText, 0, parseInt(positionMatch.val))))
        ELSE IF lineMatch # NULL THEN Some(parseInt(lineMatch.val))
        ELSE Some(1)

getErrorLineNumber(message, inputText) ==
    LET positionMatch == MatchKeywordNumber(message, kwPosition)
        lineMatch == MatchKeywordNumber(message, kwLine)
    IN  IF positionMatch # NULL
        THEN Some(SplitLinesLength(Substring(inputText, 0, parseInt(positionMatch.val))))
        ELSE IF lineMatch # NULL THEN Some(parseInt(lineMatch.val))
        ELSE NULL

\* 1 + the number of characters of s after its last newline
RECURSIVE ColumnAfter(_)
ColumnAfter(s) ==
    IF s = <<>> THEN 1
    ELSE IF s[Len(s)] = NL THEN 1
    ELSE 1 + ColumnAfter(SubSeq(s, 1, Len(s) - 1))

-----------------------------------------------------------------------------
(* Failure messages of the JSON parsers in use.  The wording is the engine's *)
(* and not this program's; the locators read only the "position N" and       *)
(* "line N" parts.                                                           *)

MsgAt == <<"a", "t", " ">>
MsgColumn == <<" ", "c", "o", "l", "u", "m", "n", " ">>

\* V8 before 10.5: "Unexpected token ] in JSON at position N"
MsgV8Position(n) == MsgAt \o kwPosition \o <<" ">> \o n
\* V8 since 11.4: "... in JSON at position N (line L column C)"
MsgV8PositionLine(n, l, c) ==
    MsgAt \o kwPosition \o <<" ">> \o n \o <<" ", "(">> \o kwLine \o <<" ">> \o l
          \o MsgColumn \o c \o <<")">>
\* SpiderMonkey: "JSON.parse: unexpected character at line L column C of the JSON data"
MsgSpiderMonkey(l, c) == MsgAt \o kwLine \o <<" ">> \o l \o MsgColumn \o c
\* JavaScriptCore: "JSON Parse error: Unexpected EOF"
MsgJavaScriptCore == <<"J", "S", "O", "N", " ", "P", "a", "r", "s", "e", " ", "E", "O", "F">>
\* V8 since 10.5, short input: "Unexpected token 'x', "<the source text>" is not valid JSON"
MsgV8Snippet(text) == <<"\"">> \o text \o <<"\"", " ", "i", "s", " ", "n", "o", "t">>

-----------------------------------------------------------------------------
(* JSON values and the serializer, JSON.stringify(value, null, indent) *)

JNull == [t |-> "null"]
JBool(b) == [t |-> "bool", b |-> b]
\* a number, by the parts of its decimal rendering: 12, -1.5, 1e+21, 2.5e-7
JNum(neg, int, frac, exp) == [t |-> "num", neg |-> neg, int |-> int, frac |-> frac, exp |-> exp]
JStr(s) == [t |-> "str", s |-> s]
JArr(items) == [t |-> "arr", items |-> items]
\* members: a sequence of <<key, value>> in insertion order
JObj(members) == [t |-> "obj", members |-> members]

\* a control character below U+0020 that has no short escape
CTRL == "\\x01"
HexOfCtrl == <<"0", "0", "0", "1">>
HexOfHS == <<"d", "8", "3", "d">>
HexOfLS == <<"d", "e", "0", "0">>

\* QuoteJSONString: one code unit of the string, escaped (prev, next: its neighbours)
QuoteUnit(c, prev, next) ==
    CASE c = "\"" -> <<"\\", "\"">>
      [] c = "\\" -> <<"\\", "\\">>
      [] c = NL -> <<"\\", "n">>
      [] c = "\t" -> <<"\\", "t">>
      [] c = "\r" -> <<"\\", "r">>
      [] c = CTRL -> <<"\\", "u">> \o HexOfCtrl
      [] c = HS /\ next # LS -> <<"\\", "u">> \o HexOfHS
      [] c = LS /\ prev # HS -> <<"\\", "u">> \o HexOfLS
      [] OTHER -> <<c>>

QuoteJSONString(s) ==
    <<"\"">>
    \o Flatten([i \in 1..Len(s) |->
            QuoteUnit(s[i], IF i > 1 THEN s[i - 1] ELSE "", IF i < Len(s) THEN s[i + 1] ELSE "")])
    \o <<"\"">>

\* Number::toString of the numbers the model uses
NumberToString(n) ==
    (IF n.neg THEN <<"-">> ELSE <<>>)
    \o Digits(n.int)
    \o (IF n.frac = <<>> THEN <<>> ELSE <<".">> \o n.frac)
    \o (IF n.exp = 0 THEN <<>>
        ELSE <<"e", IF n.exp > 0 THEN "+" ELSE "-">> \o Digits(IF n.exp > 0 THEN n.exp ELSE -n.exp))

Spaces(n) == [i \in 1..n |-> " "]

\* parts joined by sep
RECURSIVE Join(_, _)
Join(parts, sep) ==
    IF parts = <<>> THEN <<>>
    ELSE IF Len(parts) = 1 THEN parts[1]
    ELSE parts[1] \o sep \o Join(Tail(parts), sep)

\* SerializeJSONProperty with the current indentation `indent` and the gap
RECURSIVE SerializeJSON(_, _, _)
SerializeJSON(v, gap, indent) ==
    LET stepback == indent
        inner == indent \o gap
        wrap(open, parts, close) ==
            IF parts = <<>> THEN <<open, close>>
            ELSE IF gap = <<>> THEN <<open>> \o Join(parts, <<",">>) \o <<close>>
            ELSE <<open, NL>> \o inner \o Join(parts, <<",", NL>> \o inner)
                 \o <<NL>> \o stepback \o <<close>>
    IN  CASE v.t = "null" -> <<"n", "u", "l", "l">>
          [] v.t = "bool" -> IF v.b THEN <<"t", "r", "u", "e">> ELSE <<"f", "a", "l", "s", "e">>
          [] v.t = "num" -> NumberToString(v)
          [] v.t = "str" -> QuoteJSONString(v.s)
          [] v.t = "arr" ->
                wrap("[", [i \in 1..Len(v.items) |-> SerializeJSON(v.items[i], gap, inner)], "]")
          [] v.t = "obj" ->
                wrap("{", [i \in 1..Len(v.members) |->
                              QuoteJSONString(v.members[i][1])
                              \o (IF gap = <<>> THEN <<":">> ELSE <<":", " ">>)
                              \o SerializeJSON(v.members[i][2], gap, inner)], "}")

\* JSON.stringify(value, null, indent); indent 0 is JSON.stringify(value)
JSONStringify(v, indent) == SerializeJSON(v, Spaces(indent), <<>>)

-----------------------------------------------------------------------------
(* The highlighters.  Markup is a sequence whose elements are single         *)
(* characters and the span tags the highlighter inserts.  A tag is one       *)
(* element: the only passes that read markup with tags in it are the brace   *)
(* and bracket passes of page.tsx, and no tag holds a brace or a bracket.    *)

\* s.replace(/c/g, by) for a one-character pattern
RECURSIVE ReplaceAll(_, _, _)
ReplaceAll(s, c, by) ==
    IF s = <<>> THEN <<>>
    ELSE (IF Head(s) = c THEN by ELSE <<Head(s)>>) \o ReplaceAll(Tail(s), c, by)

EntAmp == <<"&", "a", "m", "p", ";">>
EntLt == <<"&", "l", "t", ";">>
EntGt == <<"&", "g", "t", ";">>

\* the escape that forgets '<'
EscapeHtmlNoLt(json) == ReplaceAll(ReplaceAll(json, "&", EntAmp), ">", EntGt)
\* the escape with '&' last, which encodes the entities a second time
EscapeHtmlAmpLast(json) ==
    ReplaceAll(ReplaceAll(ReplaceAll(json, "<", EntLt), ">", EntGt), "&", EntAmp)

\* .replace(/&/g, "&amp;").replace(/</g, "&lt;").replace(/>/g, "&gt;")
EscapeHtml(json) ==
    ReplaceAll(ReplaceAll(ReplaceAll(json, "&", EntAmp), "<", EntLt), ">", EntGt)

LowerLetters == {"a", "b", "c", "d", "e", "f", "g", "h", "i", "j", "k", "l", "m", "n", "o",
                 "p", "q", "r", "s", "t", "u", "v", "w", "x", "y", "z"}
UpperLetters == {"A", "B", "C", "D", "E", "F", "G", "H", "I", "J", "K", "L", "M", "N", "O",
                 "P", "Q", "R", "S", "T", "U", "V", "W", "X", "Y", "Z"}
\* [a-fA-F0-9] of part_000 and [a-zA-Z0-9] of page.tsx
HexPart == {"a", "b", "c", "d", "e", "f", "A", "B", "C", "D", "E", "F"}
             \cup {DigitChars[d] : d \in 1..10}
HexPage == LowerLetters \cup UpperLetters \cup {DigitChars[d] : d \in 1..10}
\* \w, for \b
IsWordChar(c) == c \in LowerLetters \cup UpperLetters \cup {DigitChars[d] : d \in 1..10} \cup {"_"}

At(s, i) == IF i >= 1 /\ i <= Len(s) THEN s[i] ELSE ""

\* ("(\\u[hex]{4}|\\[^u]|[^\\"])*": from i, the index after the opening quote,
\* the index of the closing quote, or 0 when the string alternative fails
RECURSIVE StringBodyEnd(_, _, _)
StringBodyEnd(s, i, hex) ==
    IF i > Len(s) THEN 0
    ELSE IF s[i] = "\"" THEN i
    ELSE IF s[i] = "\\"
         THEN IF At(s, i + 1) = "u"
              THEN IF i + 5 <= Len(s) /\ \A k \in 2..5 : s[i + k] \in hex
                   THEN StringBodyEnd(s, i + 6, hex)
                   ELSE 0
              ELSE IF i + 1 <= Len(s) THEN StringBodyEnd(s, i + 2, hex) ELSE 0
    ELSE StringBodyEnd(s, i + 1, hex)

\* the string alternative with its optional (\s*:)?: the last index of the
\* match that starts at i, or 0
StringMatchEnd(s, i, hex) ==
    IF At(s, i) # "\"" THEN 0
    ELSE LET q == StringBodyEnd(s, i + 1, hex)
             k == SkipSpaces(s, q + 1)
         IN  IF q = 0 THEN 0
             ELSE IF At(s, k) = ":" THEN k ELSE q

kwTrue == <<"t", "r", "u", "e">>
kwFalse == <<"f", "a", "l", "s", "e">>
kwNull == <<"n", "u", "l", "l">>

LiteralAt(s, i, kw) == i + Len(kw) - 1 <= Len(s) /\ SubSeq(s, i, i + Len(kw) - 1) = kw

\* \b(true|false|null)\b
KeywordMatchEnd(s, i) ==
    LET boundaryBefore == IsWordChar(At(s, i)) /\ ~IsWordChar(At(s, i - 1))
        try(kw) == IF LiteralAt(s, i, kw) /\ ~IsWordChar(At(s, i + Len(kw)))
                   THEN i + Len(kw) - 1 ELSE 0
    IN  IF ~boundaryBefore THEN 0
        ELSE IF try(kwTrue) # 0 THEN try(kwTrue)
        ELSE IF try(kwFalse) # 0 THEN try(kwFalse)
        ELSE try(kwNull)

\* -?\d+(?:\.\d*)?(?:[eE][+-]?\d+)?
NumberMatchEnd(s, i) ==
    LET a == IF At(s, i) = "-" THEN i + 1 ELSE i
        b == SkipDigits(s, a)
        c == IF At(s, b) = "." THEN SkipDigits(s, b + 1) ELSE b
        d == IF At(s, c + 1) \in {"+", "-"} THEN c + 2 ELSE c + 1
        e == SkipDigits(s, d)
    IN  IF b = a THEN 0
        ELSE IF At(s, c) \in {"e", "E"} /\ e > d THEN e - 1
        ELSE c - 1

\* the alternatives in the pattern's order
TokenMatchEnd(s, i, hex) ==
    IF StringMatchEnd(s, i, hex) # 0 THEN StringMatchEnd(s, i, hex)
    ELSE IF KeywordMatchEnd(s, i) # 0 THEN KeywordMatchEnd(s, i)
    ELSE NumberMatchEnd(s, i)

\* the /g scan: the matches [from, to], leftmost first, none overlapping
RECURSIVE TokenMatches(_, _, _)
TokenMatches(s, i, hex) ==
    IF i > Len(s) THEN <<>>
    ELSE LET e == TokenMatchEnd(s, i, hex)
         IN  IF e = 0 THEN TokenMatches(s, i + 1, hex)
             ELSE <<[from |-> i, to |-> e]>> \o TokenMatches(s, e + 1, hex)

\* /kw/.test(match)
Contains(m, kw) == \E i \in 1..Len(m) : LiteralAt(m, i, kw)

\* the classification of a match, always Number
ClassifyAllNumber(match) == "number"
\* the classification that tests for a key before it tests for a string: never
ClassifyNoKey(match) ==
    IF At(match, 1) = "\"" THEN "string"
    ELSE IF Contains(match, kwTrue) \/ Contains(match, kwFalse) THEN "boolean"
    ELSE IF Contains(match, kwNull) THEN "null"
    ELSE "number"

\* the replace callback's choice of class (part_000) or colour key (page.tsx)
Classify(match) ==
    IF At(match, 1) = "\""
    THEN IF At(match, Len(match)) = ":" THEN "key" ELSE "string"
    ELSE IF Contains(match, kwTrue) \/ Contains(match, kwFalse) THEN "boolean"
    ELSE IF Contains(match, kwNull) THEN "null"
    ELSE "number"

SpanClose == "</span>"

\* `<span class="${cls}">` of part_000
SpanOpenPart(cls) ==
    CASE cls = "key" -> "<span class=\"json-key\">"
      [] cls = "string" -> "<span class=\"json-string\">"
      [] cls = "number" -> "<span class=\"json-number\">"
      [] cls = "boolean" -> "<span class=\"json-boolean\">"
      [] cls = "null" -> "<span class=\"json-null\">"

\* syntaxColors of page.tsx, and `<span style="color:${color}">`
syntaxColors ==
    [key |-> "#9cdcfe", string |-> "#ce9178", number |-> "#b5cea8", boolean |-> "#569cd6",
     null |-> "#569cd6", bracket |-> "#ffd700", brace |-> "#da70d6"]
SpanOpenPage(color) ==
    CASE color = "#9cdcfe" -> "<span style=\"color:#9cdcfe\">"
      [] color = "#ce9178" -> "<span style=\"color:#ce9178\">"
      [] color = "#b5cea8" -> "<span style=\"color:#b5cea8\">"
      [] color = "#569cd6" -> "<span style=\"color:#569cd6\">"
      [] color = "#ffd700" -> "<span style=\"color:#ffd700\">"
      [] color = "#da70d6" -> "<span style=\"color:#da70d6\">"

\* part_000: the callback
WrapPart(match) == <<SpanOpenPart(Classify(match))>> \o match \o <<SpanClose>>

\* page.tsx: the callback; for a key, match.replace(/"/g, '"').replace(/:$/, '":')
KeyRewrite(match) ==
    LET m1 == ReplaceAll(match, "\"", <<"\"">>)
    IN  IF At(m1, Len(m1)) = ":" THEN SubSeq(m1, 1, Len(m1) - 1) \o <<"\"", ":">> ELSE m1
WrapPage(match) ==
    LET cls == Classify(match)
    IN  <<SpanOpenPage(syntaxColors[cls])>>
        \o (IF cls = "key" THEN KeyRewrite(match) ELSE match)
        \o <<SpanClose>>

WrapMatch(which, match) == IF which = "part" THEN WrapPart(match) ELSE WrapPage(match)

\* escaped.replace(pattern, callback): the text between the matches is kept,
\* each match is replaced by what the variant's callback returns for it
RECURSIVE ReplaceMatches(_, _, _, _)
ReplaceMatches(s, i, matches, which) ==
    IF matches = <<>> THEN SubSeq(s, i, Len(s))
    ELSE LET m == Head(matches)
         IN  SubSeq(s, i, m.from - 1) \o WrapMatch(which, SubSeq(s, m.from, m.to))
             \o ReplaceMatches(s, m.to + 1, Tail(matches), which)

\* part_000: syntaxHighlight
syntaxHighlight(json) ==
    LET escaped == EscapeHtml(json)
    IN  ReplaceMatches(escaped, 1, TokenMatches(escaped, 1, HexPart), "part")

\* .replace(/([{}])/g, `<span style="color:${syntaxColors.brace}">$1</span>`)
RECURSIVE TagChars(_, _, _)
TagChars(markup, chars, open) ==
    IF markup = <<>> THEN <<>>
    ELSE (IF Head(markup) \in chars THEN <<open, Head(markup), SpanClose>> ELSE <<Head(markup)>>)
         \o TagChars(Tail(markup), chars, open)

\* page.tsx: syntaxHighlight
syntaxHighlightPage(json) ==
    LET escaped == EscapeHtml(json)
        tokens == ReplaceMatches(escaped, 1, TokenMatches(escaped, 1, HexPage), "page")
        braces == TagChars(tokens, {"{", "}"}, SpanOpenPage(syntaxColors.brace))
    IN  TagChars(braces, {"[", "]"}, SpanOpenPage(syntaxColors.bracket))

-----------------------------------------------------------------------------
(* The JSON parser, JSON.parse: the engine's, not this program's.  It is     *)
(* modelled on the texts the component is given: a text is valid when it is  *)
(* the serialization of one of UiValues between JSON white space; for any    *)
(* other text the parser fails with one of the messages an engine may give.  *)

NBSP == "\\xA0"

UiValues == {JNull, JObj(<<>>), JStr(<<"<">>),
             JObj(<<<<(<<"a">>), JArr(<<JNum(FALSE, 7, <<>>, 0)>>)>>>>)}

IsJsonSpace(c) == c \in {" ", NL, "\t", "\r"}
RECURSIVE StripJsonSpace(_)
StripJsonSpace(s) ==
    IF s # <<>> /\ IsJsonSpace(Head(s)) THEN StripJsonSpace(Tail(s))
    ELSE IF s # <<>> /\ IsJsonSpace(s[Len(s)]) THEN StripJsonSpace(SubSeq(s, 1, Len(s) - 1))
    ELSE s

\* the offset is where the parser gave up: the start of the text or its end
ParseMessages(text) ==
    {MsgV8Position(Digits(p)) : p \in {0, Len(text)}}
    \cup {MsgV8PositionLine(Digits(Len(text)), Digits(SplitLinesLength(text)),
                            Digits(ColumnAfter(text)))}
    \cup {MsgSpiderMonkey(Digits(SplitLinesLength(text)), Digits(ColumnAfter(text)))}
    \cup {MsgJavaScriptCore, MsgV8Snippet(text)}

\* the outcomes JSON.parse(text) may have
JSONParse(text) ==
    LET t == StripJsonSpace(text)
        hits == {v \in UiValues : \E i \in {0, 2, 4, 8} : t = JSONStringify(v, i)}
    IN  IF hits # {} THEN {[ok |-> TRUE, value |-> v] : v \in hits}
        ELSE {[ok |-> FALSE, message |-> m] : m \in ParseMessages(text)}

-----------------------------------------------------------------------------
(* The component: state, callbacks and handlers of both variants *)

\* String.prototype.trim removes white space and line terminators
IsTrimSpace(c) == c \in {" ", NL, "\t", "\r", NBSP}
RECURSIVE Trim(_)
Trim(s) ==
    IF s # <<>> /\ IsTrimSpace(Head(s)) THEN Trim(Tail(s))
    ELSE IF s # <<>> /\ IsTrimSpace(s[Len(s)]) THEN Trim(SubSeq(s, 1, Len(s) - 1))
    ELSE s

\* the test `!input` in place of `!input.trim()`
IsBlankEmptyOnly(s) == s = <<>>
\* !input.trim()
IsBlank(s) == Trim(s) = <<>>

\* "Please enter some JSON to validate"
MsgPleaseEnter ==
    <<"P", "l", "e", "a", "s", "e", " ", "e", "n", "t", "e", "r", " ", "s", "o", "m", "e", " ",
      "J", "S", "O", "N", " ", "t", "o", " ", "v", "a", "l", "i", "d", "a", "t", "e">>

\* a render: useCallback hands out a new closure when one of its dependencies
\* changed ([input, indentSize], [input]), and the keydown effect, which
\* depends on the callback, subscribes the new one
Render ==
    /\ cbInput' = input'
    /\ cbIndent' = indentSize'

UiFrame == UNCHANGED <<variant, locVars, hlVars, copyVars>>

\* page.tsx: formatJSON, called by the button or by the keydown handler
formatJSON(by) ==
    /\ variant = "page"
    /\ IF IsBlank(cbInput)
       THEN /\ output' = <<>>
            /\ error' = NULL
            /\ errorLine' = NULL
            /\ last' = [op |-> "format", by |-> by, parser |-> NULL]
       ELSE \E r \in JSONParse(cbInput) :
              /\ IF r.ok
                 THEN /\ output' = JSONStringify(r.value, cbIndent)
                      /\ error' = NULL
                      /\ errorLine' = NULL
                 ELSE /\ error' = Some(r.message)
                      /\ errorLine' = getErrorLineNumber(r.message, cbInput)
                      /\ output' = <<>>
              /\ last' = [op |-> "format", by |-> by, parser |-> Some(r)]
    /\ UNCHANGED <<input, errorColumn, indentSize, highlightedOutput>>
    /\ Render
    /\ UiFrame

\* page.tsx: minifyJSON
minifyJSON ==
    /\ variant = "page"
    /\ IF IsBlank(cbInput)
       THEN /\ output' = <<>>
            /\ error' = NULL
            /\ errorLine' = NULL
            /\ last' = [op |-> "minify", by |-> "button", parser |-> NULL]
       ELSE \E r \in JSONParse(cbInput) :
              /\ IF r.ok
                 THEN /\ output' = JSONStringify(r.value, 0)
                      /\ error' = NULL
                      /\ errorLine' = NULL
                 ELSE /\ error' = Some(r.message)
                      /\ errorLine' = getErrorLineNumber(r.message, cbInput)
                      /\ output' = <<>>
              /\ last' = [op |-> "minify", by |-> "button", parser |-> Some(r)]
    /\ UNCHANGED <<input, errorColumn, indentSize, highlightedOutput>>
    /\ Render
    /\ UiFrame

\* page.tsx: validateJSON; last.before is the output it found, last.alert
\* whether it showed the "Valid JSON!" alert
validateJSON ==
    /\ variant = "page"
    /\ IF IsBlank(cbInput)
       THEN /\ error' = Some(MsgPleaseEnter)
            /\ errorLine' = NULL
            /\ last' = [op |-> "validate", by |-> "button", parser |-> NULL,
                        alert |-> FALSE, before |-> output]
       ELSE \E r \in JSONParse(cbInput) :
              /\ IF r.ok
                 THEN /\ error' = NULL
                      /\ errorLine' = NULL
                 ELSE /\ error' = Some(r.message)
                      /\ errorLine' = getErrorLineNumber(r.message, cbInput)
              /\ last' = [op |-> "validate", by |-> "button", parser |-> Some(r),
                          alert |-> r.ok, before |-> output]
    /\ UNCHANGED <<input, output, errorColumn, indentSize, highlightedOutput>>
    /\ Render
    /\ UiFrame

\* page.tsx: clearAll
clearAll ==
    /\ variant = "page"
    /\ input' = <<>>
    /\ output' = <<>>
    /\ error' = NULL
    /\ errorLine' = NULL
    /\ last' = [op |-> "clear"]
    /\ UNCHANGED <<errorColumn, indentSize, highlightedOutput>>
    /\ Render
    /\ UiFrame

\* page.tsx: the indent selector's onChange
setIndentSize(n) ==
    /\ variant = "page"
    /\ indentSize' = n
    /\ last' = [op |-> "indent"]
    /\ UNCHANGED <<input, output, error, errorLine, errorColumn, highlightedOutput>>
    /\ Render
    /\ UiFrame

\* both variants: the textarea's onChange
setInput(text) ==
    /\ variant \in {"page", "part"}
    /\ input' = text
    /\ last' = [op |-> "edit"]
    /\ UNCHANGED <<output, error, errorLine, errorColumn, indentSize, highlightedOutput>>
    /\ Render
    /\ UiFrame

\* part_000: parseAndValidate; parsed is null for blank input and for a
\* failure, and the parsed value otherwise (JNull when the text is null)
parseAndValidate(jsonString) ==
    IF IsBlank(jsonString) THEN {[parsed |-> JNull, error |-> NULL, parser |-> NULL]}
    ELSE {IF r.ok
          THEN [parsed |-> r.value, error |-> NULL, parser |-> Some(r)]
          ELSE LET location == getErrorLocation(jsonString, r.message)
               IN  [parsed |-> JNull,
                    error |-> Some([message |-> r.message,
                                    line |-> IF location = NULL THEN NULL
                                             ELSE Some(location.val.line),
                                    column |-> IF location = NULL THEN NULL
                                               ELSE Some(location.val.column)]),
                    parser |-> Some(r)]
          : r \in JSONParse(jsonString)}

\* part_000: formatJson(minify), called by handleFormat and handleMinify
formatJson(minify, by) ==
    /\ variant = "part"
    /\ \E r \in parseAndValidate(cbInput) :
          /\ IF r.error # NULL
             THEN /\ error' = Some(r.error.val.message)
                  /\ errorLine' = r.error.val.line
                  /\ errorColumn' = r.error.val.column
                  /\ output' = <<>>
                  /\ highlightedOutput' = <<>>
             ELSE IF r.parsed = JNull
             THEN /\ error' = NULL
                  /\ errorLine' = NULL
                  /\ errorColumn' = NULL
                  /\ output' = <<>>
                  /\ highlightedOutput' = <<>>
             ELSE LET formatted == IF minify THEN JSONStringify(r.parsed, 0)
                                   ELSE JSONStringify(r.parsed, 2)
                  IN  /\ error' = NULL
                      /\ errorLine' = NULL
                      /\ errorColumn' = NULL
                      /\ output' = formatted
                      /\ highlightedOutput' = syntaxHighlight(formatted)
          /\ last' = [op |-> IF minify THEN "minify" ELSE "format", by |-> by, parser |-> r.parser]
    /\ UNCHANGED <<input, indentSize>>
    /\ Render
    /\ UiFrame

handleFormat(by) == formatJson(FALSE, by)
handleMinify == formatJson(TRUE, "button")

\* part_000: handleClear
handleClear ==
    /\ variant = "part"
    /\ input' = <<>>
    /\ output' = <<>>
    /\ highlightedOutput' = <<>>
    /\ error' = NULL
    /\ errorLine' = NULL
    /\ errorColumn' = NULL
    /\ last' = [op |-> "clear"]
    /\ UNCHANGED <<indentSize>>
    /\ Render
    /\ UiFrame

KeyEvents == {[ctrlKey |-> TRUE, metaKey |-> FALSE, key |-> "Enter"],
              [ctrlKey |-> FALSE, metaKey |-> TRUE, key |-> "Enter"],
              [ctrlKey |-> FALSE, metaKey |-> FALSE, key |-> "Enter"],
              [ctrlKey |-> TRUE, metaKey |-> FALSE, key |-> "a"]}

KeyIgnored ==
    /\ last' = [op |-> "keydown"]
    /\ UNCHANGED <<input, output, error, errorLine, errorColumn, indentSize, highlightedOutput,
                   cbInput, cbIndent>>
    /\ UiFrame

\* page.tsx: handleKeyDown
handleKeyDownPage(e) ==
    /\ variant = "page"
    /\ IF (e.ctrlKey \/ e.metaKey) /\ e.key = "Enter" THEN formatJSON("key") ELSE KeyIgnored

\* part_000: handleKeyDown
handleKeyDown(e) ==
    /\ variant = "part"
    /\ IF e.ctrlKey /\ e.key = "Enter" THEN handleFormat("key") ELSE KeyIgnored

-----------------------------------------------------------------------------
(* Copy: copyOutput of page.tsx and handleCopy of part_000, the same code.    *)
(* The handler is async: it runs to `await navigator.clipboard.writeText`,    *)
(* and the rest runs when the promise settles, other events in between.       *)
(* Its dependency list is [output], so the output it captured is the          *)
(* current one when it is called.                                             *)

\* a Copy whose test of the output never returns early
NoOutputNever(text) == FALSE
\* if (!output) return
NoOutput(text) == text = <<>>

CopyIdle ==
    /\ copied = FALSE
    /\ writes = <<>> /\ timers = <<>>
    /\ copies = 0 /\ copiedBy = 0

\* Copy calls setCopied and nothing else of the component's setters
CopyFrame ==
    UNCHANGED <<variant, input, output, error, errorLine, errorColumn, indentSize,
                highlightedOutput, cbInput, cbIndent, clipboardApi, locVars, hlVars>>

RemoveAt(q, i) == SubSeq(q, 1, i - 1) \o SubSeq(q, i + 1, Len(q))

\* setCopied(true); setTimeout(() => setCopied(false), 2000): the timers all
\* have the same delay, so they fire in the order they were set
ShowCopied(id) ==
    /\ copied' = TRUE
    /\ copiedBy' = id
    /\ timers' = Append(timers, id)

\* the catch block: a textarea holding the text is selected and
\* document.execCommand("copy") is called; its result, false when the
\* browser did not copy, is dropped
FallbackCopy(id, text, exec) ==
    /\ ShowCopied(id)
    /\ last' = [op |-> "copy", step |-> "fallback", text |-> text, wrote |-> exec]

\* the handler up to the await; last.text is the output it captured and
\* last.wrote whether the text reached the clipboard in this step. Where navigator.clipboard is undefined the
\* writeText call throws inside the try and the catch block runs at once
CopyCall ==
    /\ IF NoOutput(output)
       THEN /\ last' = [op |-> "copy", step |-> "return", text |-> output, wrote |-> FALSE]
            /\ UNCHANGED <<copied, writes, timers, copies, copiedBy>>
       ELSE /\ copies < MaxCopies
            /\ copies' = copies + 1
            /\ IF clipboardApi
               THEN /\ writes' = Append(writes, [id |-> copies + 1, text |-> output])
                    /\ last' = [op |-> "copy", step |-> "await", text |-> output, wrote |-> FALSE]
                    /\ UNCHANGED <<copied, timers, copiedBy>>
               ELSE /\ \E exec \in BOOLEAN : FallbackCopy(copies + 1, output, exec)
                    /\ UNCHANGED writes
    /\ CopyFrame

\* page.tsx: copyOutput
copyOutput ==
    /\ variant = "page"
    /\ CopyCall

\* part_000: handleCopy
handleCopy ==
    /\ variant = "part"
    /\ CopyCall

\* the promise of writeText is fulfilled: the text is on the clipboard
WriteTextFulfilled(i) ==
    /\ i \in 1..Len(writes)
    /\ ShowCopied(writes[i].id)
    /\ writes' = RemoveAt(writes, i)
    /\ last' = [op |-> "copy", step |-> "fulfilled", text |-> writes[i].text, wrote |-> TRUE]
    /\ UNCHANGED copies
    /\ CopyFrame

\* the promise of writeText is rejected: the catch block runs
WriteTextRejected(i, exec) ==
    /\ i \in 1..Len(writes)
    /\ FallbackCopy(writes[i].id, writes[i].text, exec)
    /\ writes' = RemoveAt(writes, i)
    /\ UNCHANGED copies
    /\ CopyFrame

\* the oldest timer fires: () => setCopied(false)
ResetCopied ==
    /\ timers # <<>>
    /\ copied' = FALSE
    /\ timers' = Tail(timers)
    /\ last' = [op |-> "timer", id |-> Head(timers)]
    /\ UNCHANGED <<writes, copies, copiedBy>>
    /\ CopyFrame

\* the texts typed or pasted into the textarea
BlankTexts == SeqsUpTo({" ", NL}, MaxBlankLen) \cup {<<NBSP, "\t">>}
ValidTexts == {JSONStringify(v, i) : v \in UiValues, i \in {0, 2}}
                  \cup {<<" ">> \o JSONStringify(JObj(<<>>), 0) \o <<NL>>}
InvalidTexts == {<<"{">>, kwLine \o <<" ", "0">>, <<"[", "7", ",", NL, "]">>}
UiTexts == BlankTexts \cup ValidTexts \cup InvalidTexts

Init ==
    /\ variant \in {"page", "part"}
    /\ input = <<>> /\ output = <<>>
    /\ error = NULL /\ errorLine = NULL /\ errorColumn = NULL
    /\ indentSize = 2 /\ highlightedOutput = <<>>
    /\ cbInput = <<>> /\ cbIndent = 2
    /\ last = [op |-> "mount"]
    /\ CopyIdle
    /\ clipboardApi = TRUE
    /\ locText = <<>> /\ locMsg = <<>> /\ locResult = Idle /\ locLine = Idle /\ locPc = {}
    /\ hlValue = Idle /\ hlIndent = 0 /\ hlVariant = "none"
    /\ hlJson = <<>> /\ hlTokens = <<>> /\ hlOut = <<>>

Next ==
    \/ \E text \in UiTexts : setInput(text)
    \/ formatJSON("button")
    \/ minifyJSON
    \/ validateJSON
    \/ clearAll
    \/ \E n \in {2, 4, 8} : setIndentSize(n)
    \/ \E e \in KeyEvents : handleKeyDownPage(e)
    \/ handleFormat("button")
    \/ handleMinify
    \/ handleClear
    \/ \E e \in KeyEvents : handleKeyDown(e)

Spec == Init /\ [][Next]_vars

-----------------------------------------------------------------------------
(* The component with Copy: the buttons, the textarea and the indent         *)
(* selector over fewer texts and indents, the settling of the clipboard      *)
(* promises and the reset timers, in a browser with or without               *)
(* navigator.clipboard. The keyboard shortcut calls the same callback as     *)
(* the Format button and is exercised in Spec.                               *)

ShellTexts == {<<>>, <<"{">>, JSONStringify(JObj(<<>>), 0), JSONStringify(JNull, 0)}

ShellInit ==
    /\ variant \in {"page", "part"}
    /\ input = <<>> /\ output = <<>>
    /\ error = NULL /\ errorLine = NULL /\ errorColumn = NULL
    /\ indentSize = 2 /\ highlightedOutput = <<>>
    /\ cbInput = <<>> /\ cbIndent = 2
    /\ last = [op |-> "mount"]
    /\ CopyIdle
    /\ clipboardApi \in BOOLEAN
    /\ locText = <<>> /\ locMsg = <<>> /\ locResult = Idle /\ locLine = Idle /\ locPc = {}
    /\ hlValue = Idle /\ hlIndent = 0 /\ hlVariant = "none"
    /\ hlJson = <<>> /\ hlTokens = <<>> /\ hlOut = <<>>

ShellNext ==
    \/ \E text \in ShellTexts : setInput(text)
    \/ formatJSON("button")
    \/ minifyJSON
    \/ validateJSON
    \/ clearAll
    \/ \E n \in {2, 4} : setIndentSize(n)
    \/ handleFormat("button")
    \/ handleMinify
    \/ handleClear
    \/ copyOutput
    \/ handleCopy
    \/ \E i \in 1..MaxCopies : WriteTextFulfilled(i)
    \/ \E i \in 1..MaxCopies, exec \in BOOLEAN : WriteTextRejected(i, exec)
    \/ ResetCopied

SpecShell == ShellInit /\ [][ShellNext]_vars

-----------------------------------------------------------------------------
(* The component not mounted: the value of its variables in the              *)
(* specifications of the locators and of the highlighters                    *)
UiIdle ==
    /\ variant = "none" /\ input = <<>> /\ output = <<>>
    /\ error = NULL /\ errorLine = NULL /\ errorColumn = NULL
    /\ indentSize = 2 /\ highlightedOutput = <<>>
    /\ cbInput = <<>> /\ cbIndent = 2 /\ last = [op |-> "none"]
    /\ CopyIdle
    /\ clipboardApi = TRUE

-----------------------------------------------------------------------------
(* The error locators on their own: any source text, any failure message *)

LocChars == {"a", NL, HS, LS}
LocTexts == SeqsUpTo(LocChars, MaxTextLen)

Numerals == {Digits(n) : n \in 0..MaxPos} \cup {<<"0", "2">>, <<"1", "0">>}
LineNumerals == {Digits(n) : n \in 1..2}
SnippetTexts == {<<"{">>, kwLine \o <<" ", "0">>, kwLine \o <<" ", "2">>,
                 kwPosition \o <<" ", "1">>}

LocMessages ==
    {MsgV8Position(n) : n \in Numerals}
    \cup {MsgV8PositionLine(n, l, <<"1">>) : n \in Numerals, l \in LineNumerals}
    \cup {MsgSpiderMonkey(l, <<"1">>) : l \in LineNumerals}
    \cup {MsgJavaScriptCore}
    \cup {MsgV8Snippet(t) : t \in SnippetTexts}
    \* the /i flag, and more than one blank before the digits
    \cup {<<"P", "O", "S", "I", "T", "I", "O", "N", " ", NL>> \o n : n \in Numerals}
    \* the keyword with no digits after it, alone and before a real match
    \cup {kwPosition \o <<" ", "x">>, kwPosition \o <<"5">>, kwLine \o <<":">>}
    \cup {kwPosition \o <<" ", "x", " ">> \o MsgV8Position(n) : n \in Numerals}

LocInit ==
    /\ locText \in LocTexts
    /\ locMsg \in LocMessages
    /\ locResult = Idle
    /\ locLine = Idle
    /\ locPc = {}
    /\ hlValue = Idle /\ hlIndent = 0 /\ hlVariant = "none"
    /\ hlJson = <<>> /\ hlTokens = <<>> /\ hlOut = <<>>
    /\ UiIdle

CallGetErrorLocation ==
    /\ "getErrorLocation" \notin locPc
    /\ locResult' = getErrorLocation(locText, locMsg)
    /\ locPc' = locPc \cup {"getErrorLocation"}
    /\ UNCHANGED <<locText, locMsg, locLine, hlVars, uiVars>>

CallGetErrorLineNumber ==
    /\ "getErrorLineNumber" \notin locPc
    /\ locLine' = getErrorLineNumber(locMsg, locText)
    /\ locPc' = locPc \cup {"getErrorLineNumber"}
    /\ UNCHANGED <<locText, locMsg, locResult, hlVars, uiVars>>

LocNext == CallGetErrorLocation \/ CallGetErrorLineNumber

SpecLoc == LocInit /\ [][LocNext]_vars

-----------------------------------------------------------------------------
(* Claims about the error locators *)

\* the offset the "position N" part of the message carries
HasPosition == MatchKeywordNumber(locMsg, kwPosition) # NULL
PositionOf == parseInt(MatchKeywordNumber(locMsg, kwPosition).val)

\* C1: for an offset p within the text (0 <= p <= length of the text, in the
\* units the parser reports), getErrorLocation returns line = 1 + the number
\* of newlines among the first p characters and column = 1 + the number of
\* characters after the last of them; with no newline, line 1 and column p + 1.
C1_LocationCountsFirstP ==
    (locResult # Idle /\ HasPosition /\ PositionOf <= Len(locText)) =>
        /\ locResult # NULL
        /\ locResult.val.line = 1 + CountNewlines(SubSeq(locText, 1, PositionOf))
        /\ locResult.val.column = ColumnAfter(SubSeq(locText, 1, PositionOf))

\* C6: for an offset beyond the end of the text both locators return a
\* location, and it is the location of end-of-text: the same result as for the
\* offset equal to the text's length.
C6_BeyondEndIsEndOfText ==
    (HasPosition /\ PositionOf > Len(locText)) =>
        /\ locResult # Idle =>
              /\ locResult # NULL
              /\ locResult = getErrorLocation(locText, MsgV8Position(Digits(Len(locText))))
              /\ locResult.val.line = 1 + CountNewlines(locText)
        /\ locLine # Idle =>
              /\ locLine # NULL
              /\ locLine = getErrorLineNumber(MsgV8Position(Digits(Len(locText))), locText)
              /\ locLine.val = 1 + CountNewlines(locText)

C6_Witness ==
    /\ HasPosition /\ PositionOf > Len(locText) + 1
    /\ locResult # Idle /\ locLine # Idle
    /\ CountNewlines(locText) > 0 /\ locText[Len(locText)] # NL

\* C7: a location the locators return has line >= 1 and, where there is a
\* column, column >= 1, on the "position N" path and on the "line N" path.
C7_LocationAtLeastOne ==
    /\ (locResult # Idle /\ locResult # NULL) =>
           (locResult.val.line >= 1 /\ locResult.val.column >= 1)
    /\ (locLine # Idle /\ locLine # NULL) => locLine.val >= 1

-----------------------------------------------------------------------------
(* The highlighters on their own: any JSON value, serialized and highlighted *)

\* what the strings of the values are made of
StrAtoms == {<<"a">>, <<":">>, <<"\"">>, <<"\\">>, <<"<">>, <<">">>, <<"&">>, <<"{">>,
             <<"]">>, <<"1">>, kwTrue, kwNull, <<NL>>, <<CTRL>>, <<HS>>, <<"u">>,
             <<"l", "t", ";">>}
Strings == {Flatten(q) : q \in SeqsUpTo(StrAtoms, MaxStrAtoms)}

Numbers == {JNum(FALSE, 0, <<>>, 0), JNum(FALSE, 7, <<>>, 0), JNum(TRUE, 1, <<>>, 0),
            JNum(FALSE, 12, <<>>, 0), JNum(FALSE, 1, <<"5">>, 0), JNum(TRUE, 0, <<"2", "5">>, 0),
            JNum(FALSE, 1, <<>>, 21), JNum(FALSE, 2, <<"5">>, -7)}

Scalars == {JNull, JBool(TRUE), JBool(FALSE)} \cup Numbers \cup {JStr(x) : x \in Strings}
SmallScalars == {JNull, JBool(TRUE), JBool(FALSE), JNum(FALSE, 7, <<>>, 0),
                 JNum(TRUE, 0, <<"2", "5">>, 0), JNum(FALSE, 2, <<"5">>, -7),
                 JStr(<<>>), JStr(<<"a">>), JStr(<<"{">>), JStr(<<"]", ":">>), JStr(<<"<">>),
                 JStr(<<"\"", ":">>), JStr(kwNull)}
SmallKeys == {<<"a">>, <<"}", ":">>, <<"\\", "\"">>}

\* every string of the bound, as a value, an item, a member's value or its key
WideValues ==
    Scalars
    \cup {JArr(<<x>>) : x \in Scalars}
    \cup {JObj(<<<<(<<"a">>), x>>>>) : x \in Scalars}
    \cup {JObj(<<<<k, JNum(FALSE, 7, <<>>, 0)>>>>) : k \in Strings}

NestedValues ==
    {JArr(<<>>), JObj(<<>>), JArr(<<JArr(<<>>), JObj(<<>>)>>)}
    \cup {JArr(<<x, y>>) : x, y \in SmallScalars}
    \cup {JObj(<<<<(<<"a">>), x>>, <<(<<"b">>), y>>>>) : x, y \in SmallScalars}
    \cup {JArr(<<JArr(<<x>>)>>) : x \in SmallScalars}
    \cup {JArr(<<JObj(<<<<k, x>>>>)>>) : k \in SmallKeys, x \in SmallScalars}
    \cup {JObj(<<<<k, JArr(<<x, JNull>>)>>>>) : k \in SmallKeys, x \in SmallScalars}
    \cup {JObj(<<<<k, JObj(<<<<k, x>>>>)>>>>) : k \in SmallKeys, x \in SmallScalars}

HlInit ==
    /\ \/ hlValue \in WideValues /\ hlIndent \in {0, 2}
       \/ hlValue \in NestedValues /\ hlIndent \in {0, 2, 4, 8}
    /\ hlVariant = "none"
    /\ hlJson = <<>> /\ hlTokens = <<>> /\ hlOut = <<>>
    /\ locText = <<>> /\ locMsg = <<>> /\ locResult = Idle /\ locLine = Idle /\ locPc = {}
    /\ UiIdle

CallbackCalls(escaped, hex) ==
    LET ms == TokenMatches(escaped, 1, hex)
    IN  [i \in 1..Len(ms) |->
            [cls |-> Classify(SubSeq(escaped, ms[i].from, ms[i].to)),
             text |-> SubSeq(escaped, ms[i].from, ms[i].to)]]

\* part_000, formatJson: JSON.stringify(parsed) or JSON.stringify(parsed, null, 2),
\* then syntaxHighlight(formatted)
HighlightPart ==
    /\ hlVariant = "none"
    /\ hlIndent \in {0, 2}
    /\ LET formatted == JSONStringify(hlValue, hlIndent)
       IN  /\ hlJson' = formatted
           /\ hlTokens' = CallbackCalls(EscapeHtml(formatted), HexPart)
           /\ hlOut' = syntaxHighlight(formatted)
    /\ hlVariant' = "part"
    /\ UNCHANGED <<hlValue, hlIndent, locVars, uiVars>>

\* page.tsx, formatJSON / minifyJSON: JSON.stringify(parsed, null, indentSize) or
\* JSON.stringify(parsed), then syntaxHighlight(output) when rendering
HighlightPage ==
    /\ hlVariant = "none"
    /\ LET formatted == JSONStringify(hlValue, hlIndent)
       IN  /\ hlJson' = formatted
           /\ hlTokens' = CallbackCalls(EscapeHtml(formatted), HexPage)
           /\ hlOut' = syntaxHighlightPage(formatted)
    /\ hlVariant' = "page"
    /\ UNCHANGED <<hlValue, hlIndent, locVars, uiVars>>

HlNext == HighlightPart \/ HighlightPage

SpecHL == HlInit /\ [][HlNext]_vars

-----------------------------------------------------------------------------
(* Claims about the highlighters *)

TokenTagsPart == {SpanOpenPart(c) : c \in {"key", "string", "number", "boolean", "null"}}
TokenTagsPage == {SpanOpenPage(syntaxColors[c]) : c \in {"key", "string", "number", "boolean", "null"}}
StructTagsPage == {SpanOpenPage(syntaxColors.brace), SpanOpenPage(syntaxColors.bracket)}
SpanTags == TokenTagsPart \cup TokenTagsPage \cup StructTagsPage \cup {SpanClose}

EntityAt(markup, i) ==
    \E ent \in {EntAmp, EntLt, EntGt} :
        i + Len(ent) - 1 <= Len(markup) /\ SubSeq(markup, i, i + Len(ent) - 1) = ent

\* C2: in the markup of a serialized JSON value every '<' and '>' belongs to a
\* span tag the highlighter inserted and every '&' starts one of the entities
\* &amp; &lt; &gt;.
C2_MarkupIsHtmlSafe ==
    hlVariant # "none" =>
        \A i \in 1..Len(hlOut) :
            /\ hlOut[i] \notin SpanTags => hlOut[i] \notin {"<", ">"}
            /\ hlOut[i] = "&" => EntityAt(hlOut, i)

C2_Witness ==
    /\ hlVariant = "page"
    /\ \E i, j \in 1..Len(hlJson) : hlJson[i] = "<" /\ hlJson[j] = "&"
    /\ \E i \in 1..Len(hlOut) : hlOut[i] \in TokenTagsPage

StripTags(markup) == SelectSeq(markup, LAMBDA x : x \notin SpanTags)

\* C3: with the inserted span tags removed, the markup is the serialized text
\* with each '&', '<', '>' replaced once by its entity: the wrapping adds,
\* drops and changes no character of a token.
C3_WrappingKeepsText ==
    hlVariant # "none" => StripTags(hlOut) = EscapeHtml(hlJson)

\* the lexical tokens of a value's serialization, in order, with their classes
RECURSIVE LexicalTokens(_)
LexicalTokens(v) ==
    CASE v.t = "null" -> <<[cls |-> "null", text |-> kwNull]>>
      [] v.t = "bool" -> <<[cls |-> "boolean", text |-> IF v.b THEN kwTrue ELSE kwFalse]>>
      [] v.t = "num" -> <<[cls |-> "number", text |-> NumberToString(v)]>>
      [] v.t = "str" -> <<[cls |-> "string", text |-> QuoteJSONString(v.s)]>>
      [] v.t = "arr" -> Flatten([i \in 1..Len(v.items) |-> LexicalTokens(v.items[i])])
      [] v.t = "obj" ->
            Flatten([i \in 1..Len(v.members) |->
                <<[cls |-> "key", text |-> QuoteJSONString(v.members[i][1]) \o <<":">>]>>
                \o LexicalTokens(v.members[i][2])])

EscapedTokens(v) ==
    LET ts == LexicalTokens(v)
    IN  [i \in 1..Len(ts) |-> [cls |-> ts[i].cls, text |-> EscapeHtml(ts[i].text)]]

ClassOfTagPart(tag) == CHOOSE c \in {"key", "string", "number", "boolean", "null"} : SpanOpenPart(c) = tag

\* the spans of part_000's markup: the class of each opening tag and the text
\* up to its closing tag
RECURSIVE SpansOf(_, _)
SpansOf(markup, i) ==
    IF i > Len(markup) THEN <<>>
    ELSE IF markup[i] \in TokenTagsPart
         THEN LET close == CHOOSE j \in i + 1..Len(markup) + 1 :
                               /\ j = Len(markup) + 1 \/ markup[j] \in SpanTags
                               /\ \A k \in i + 1..j - 1 : markup[k] \notin SpanTags
              IN  <<[cls |-> ClassOfTagPart(markup[i]), text |-> SubSeq(markup, i + 1, close - 1),
                     closed |-> At(markup, close) = SpanClose]>>
                  \o SpansOf(markup, close + 1)
         ELSE SpansOf(markup, i + 1)

RECURSIVE TagOutsideSpans(_, _)
TagOutsideSpans(markup, inSpan) ==
    IF markup = <<>> THEN <<>>
    ELSE LET x == Head(markup)
         IN  IF x \in TokenTagsPage THEN <<x>> \o TagOutsideSpans(Tail(markup), TRUE)
             ELSE IF x = SpanClose THEN <<x>> \o TagOutsideSpans(Tail(markup), FALSE)
             ELSE IF ~inSpan /\ x \in {"{", "}"}
                  THEN <<SpanOpenPage(syntaxColors.brace), x, SpanClose>>
                       \o TagOutsideSpans(Tail(markup), inSpan)
             ELSE IF ~inSpan /\ x \in {"[", "]"}
                  THEN <<SpanOpenPage(syntaxColors.bracket), x, SpanClose>>
                       \o TagOutsideSpans(Tail(markup), inSpan)
             ELSE <<x>> \o TagOutsideSpans(Tail(markup), inSpan)

\* C9: page.tsx tags a brace or a bracket if and only if it is a structural
\* character outside every token span; for the text {} the markup is the two
\* braces, each wrapped once.
C9_OnlyStructuralBracesTagged ==
    hlVariant = "page" =>
        LET escaped == EscapeHtml(hlJson)
            tokens == ReplaceMatches(escaped, 1, TokenMatches(escaped, 1, HexPage), "page")
        IN  /\ hlOut = TagOutsideSpans(tokens, FALSE)
            /\ hlJson = <<"{", "}">> =>
                  hlOut = <<SpanOpenPage(syntaxColors.brace), "{", SpanClose,
                            SpanOpenPage(syntaxColors.brace), "}", SpanClose>>

-----------------------------------------------------------------------------
(* Claims about the component *)

\* the text is empty or holds white space only
AllWhitespace(s) == \A i \in 1..Len(s) : s[i] \in {" ", NL, "\t", "\r", NBSP}

NoPattern(msg, kw) ==
    ~\E i \in 1..Len(msg), j \in 1..Len(msg) :
        /\ KeywordAt(msg, i, kw)
        /\ j > i + Len(kw)
        /\ \A k \in i + Len(kw)..j - 1 : msg[k] \in {" ", NL, "\t", "\r"}
        /\ IsDigit(msg[j])

\* C8: when the parser's message holds neither "position N" nor "line N",
\* Format, Minify and Validate end with the error set to that message and with
\* no line and no column.
C8_NoPatternNoLocation ==
    (/\ last.op \in {"format", "minify", "validate"}
     /\ last.parser # NULL
     /\ ~last.parser.val.ok
     /\ NoPattern(last.parser.val.message, kwPosition)
     /\ NoPattern(last.parser.val.message, kwLine)) =>
        /\ error = Some(last.parser.val.message)
        /\ errorLine = NULL
        /\ errorColumn = NULL

C8_Witness ==
    /\ variant = "page" /\ last.op = "validate"
    /\ last.parser # NULL
    /\ ~last.parser.val.ok
    /\ last.parser.val.message = MsgV8Snippet(<<"{">>)
    /\ error = Some(MsgV8Snippet(<<"{">>))

\* C10: Format (button or Ctrl+Enter) on a non-blank input that parses sets
\* the output to the serialization of the parsed input with the current indent
\* (part_000: 2), Minify with no indentation, and both clear the error and its
\* location.
C10_FormatSerializesCurrentInput ==
    (/\ last.op \in {"format", "minify"}
     /\ ~AllWhitespace(input)
     /\ \E r \in JSONParse(input) : r.ok) =>
        /\ \E r \in JSONParse(input) :
              /\ r.ok
              /\ output = JSONStringify(r.value, IF last.op = "minify" THEN 0
                                                 ELSE IF variant = "page" THEN indentSize
                                                 ELSE 2)
        /\ error = NULL /\ errorLine = NULL /\ errorColumn = NULL

-----------------------------------------------------------------------------
(* Claims about Copy and about the states of the shell *)

\* C11: a step of Copy (the call, the settling of the clipboard promise with
\* or without the fallback, the reset timer) leaves input, output, error and
\* the error location as they were, so it sets no error; a Copy called with
\* an empty output changes nothing of the component's state.
C11_CopyLeavesFormattingState ==
    [][last'.op \in {"copy", "timer"} =>
          /\ UNCHANGED <<input, output, error, errorLine, errorColumn,
                         highlightedOutput, indentSize>>
          /\ (last'.op = "copy" /\ last'.text = <<>>) =>
                 UNCHANGED <<copied, writes, timers, copies, copiedBy>>]_vars

\* Copy was called with an empty output after an earlier Copy went through
\* the fallback for a failed clipboard write, an error being shown
C11_Witness ==
    /\ last.op = "copy" /\ last.step = "return"
    /\ output = <<>> /\ error # NULL
    /\ copied /\ timers # <<>>

\* C12: after a Copy has finished, by the clipboard write or by the fallback,
\* the copied indicator is true only if that Copy put the text on the
\* clipboard.
C12_CopiedOnlyWhenTextCopied ==
    (last.op = "copy" /\ last.step \in {"fulfilled", "fallback"} /\ copied) => last.wrote

ShellEmpty == output = <<>> /\ error = NULL
ShellFormatted == output # <<>> /\ error = NULL
ShellInvalid == error # NULL /\ output = <<>>

\* C13: in every reachable state the shell is Empty, Formatted or Invalid: an
\* error and a non-empty output are never present together.
C13_ShellStateIsOneOfThree ==
    ShellEmpty \/ ShellFormatted \/ ShellInvalid

TimerPending(id) == \E k \in 1..Len(timers) : timers[k] = id

\* C14: while the reset timer of the Copy that last set the copied indicator
\* is pending, the indicator is true; when no timer is pending it is false.
C14_IndicatorHeldUntilOwnTimer ==
    /\ (copiedBy # 0 /\ TimerPending(copiedBy)) => copied
    /\ timers = <<>> => ~copied

=============================================================================
